---- MODULE Spec2Model ----
(***************************************************************************)
(* Model of the taxi park dispatch engine (entities.py, services.py,       *)
(* main.py): the fleet of Taxi records with their locks, the order queue,  *)
(* the dispatcher worker threads, the ride threads (simulate_ride) and the *)
(* client patience threads (_client_waiting_worker).                       *)
(*                                                                         *)
(* Every thread is a little program counter machine.  An action is one     *)
(* access to shared state (a field of a Taxi, an Order or a Client, the     *)
(* queue, a running flag) together with the thread-local statements around *)
(* it, so that every interleaving of the Python threads that differs in    *)
(* what a thread can observe is a behaviour of Spec.                       *)
(* A `with taxi.lock:` block is one action: blocks on the same taxi exclude *)
(* one another, and a statement outside any block (there are some) is an   *)
(* action of its own that interleaves freely with the blocks.              *)
(***************************************************************************)
EXTENDS Integers, Sequences, FiniteSets, TLC

\* main.py:71  TaxiParkSimulator(num_dispatchers=2, ...)
NumDispatchers == 2
\* the fleet holds 0..MaxTaxis taxis (main.py creates 3)
MaxTaxis == 2
\* at most MaxOrders clients are created in one run
MaxOrders == 2
\* taxis and clients together number at most MaxLoad: two taxis serve one
\* client, one taxi or none serves two
MaxLoad == 3
\* main.py:38  speed=random.uniform(3, 6): every taxi drives at this speed
Speed == 5
\* a run in which stop() is called creates at most MaxStopOrders clients
MaxStopOrders == 1
\* a run in which the locks are taken step by step creates at most
\* MaxLockOrders clients
MaxLockOrders == 1
\* the map: taxis are created at either point, clients wait at Pickup and
\* travel to Dropoff (main.py and gui.py draw all three at random)
Pickup == <<0, 0>>
Dropoff == <<6, 8>>
Points == {Pickup, Dropoff}

None == 0
\* float('inf') of find_nearest_taxi; distances are compared squared
Inf == -1

VARIABLES
    taxis,          \* TaxiService.taxis: sequence of [status, location, order]
    orders,         \* every Order created, indexed by its client's id
    clients,        \* ClientService.active_clients
    order_queue,    \* the shared Queue of order ids
    dispatchers,    \* Dispatcher records: [status, processed_orders]
    workers,        \* the _dispatcher_worker thread of each dispatcher
    rides,          \* the simulate_ride threads, in the order they were started
    monitors,       \* the _client_waiting_worker thread of each client
    disp_running,   \* DispatcherService.is_running
    taxi_running,   \* TaxiService.is_running
    phase,          \* the facade: "created", "running", "stopping", "stopped"
    held            \* the threading.Lock objects taken: pairs <<task, lock>>

vars == <<taxis, orders, clients, order_queue, dispatchers, workers,
          rides, monitors, disp_running, taxi_running, phase, held>>

Dispatchers == 1 .. NumDispatchers
TaxiIds == 1 .. Len(taxis)
OrderIds == 1 .. Len(orders)
RideIds == 1 .. Len(rides)

(***************************************************************************)
(* GeometryUtils                                                           *)
(***************************************************************************)
\* calculate_distance, squared: sqrt is monotone, so comparing the squares
\* compares the distances.
SqDistance(a, b) == (b[1] - a[1]) * (b[1] - a[1]) + (b[2] - a[2]) * (b[2] - a[2])

\* the largest r with r * r <= n
ISqrt(n) == CHOOSE r \in 0 .. n : r * r <= n /\ (r + 1) * (r + 1) > n

Max(a, b) == IF a >= b THEN a ELSE b

\* max(2, int(distance / speed)); int(sqrt(q) / s) = isqrt(q div s^2)
calculate_movement_steps(start, end, speed) ==
    Max(2, ISqrt(SqDistance(start, end) \div (speed * speed)))

\* a comparison that lets an equal distance win
LessOrEqual(dist, min_distance) == min_distance = -1 \/ dist <= min_distance

\* distance < min_distance, with min_distance possibly float('inf')
LessThan(dist, min_distance) == min_distance = Inf \/ dist < min_distance

\* a move whose progress is step / steps
InterpolateShort(current, d, step, steps) == (current * steps + d * step) \div steps

\* int(current + d * (step + 1) / steps) of _move_taxi_to_target; the value
\* lies between two map coordinates, so it is never negative
Interpolate(current, d, step, steps) == (current * steps + d * (step + 1)) \div steps

(***************************************************************************)
(* Initial state: TaxiParkSimulator.__init__                               *)
(***************************************************************************)
NewTaxi(loc) == [status |-> "free", location |-> loc, order |-> None]

\* pc, order, i, nearest and min_distance are the thread's position and
\* locals.  at_get and seen are not in the code: they record, for the
\* properties below, which taxis were not free when the order was dequeued and
\* what each inspection of find_nearest_taxi observed.
NewWorker == [pc |-> "off", order |-> None, i |-> 0, nearest |-> None,
              min_distance |-> Inf, at_get |-> <<>>, seen |-> <<>>]

Init ==
    /\ \E n \in 0 .. MaxTaxis : taxis \in [1 .. n -> {NewTaxi(p) : p \in Points}]
    /\ orders = <<>>
    /\ clients = <<>>
    /\ order_queue = <<>>
    /\ dispatchers = [d \in Dispatchers |-> [status |-> "idle", processed_orders |-> 0]]
    /\ workers = [d \in Dispatchers |-> NewWorker]
    /\ rides = <<>>
    /\ monitors = <<>>
    /\ disp_running = FALSE
    /\ taxi_running = TRUE
    /\ phase = "created"
    /\ held = {}

(***************************************************************************)
(* The facade: start_dispatchers, stop                                     *)
(***************************************************************************)
\* TaxiParkSimulator.start_dispatchers -> DispatcherService.start
start_dispatchers ==
    /\ phase = "created"
    /\ phase' = "running"
    /\ disp_running' = TRUE
    /\ workers' = [d \in Dispatchers |-> [workers[d] EXCEPT !.pc = "loop"]]
    /\ UNCHANGED <<taxis, orders, clients, order_queue, dispatchers,
                   rides, monitors, taxi_running>>

\* TaxiParkSimulator.stop, first half: DispatcherService.stop flips the flag
\* and joins each worker for at most one second
DispatcherService_stop ==
    /\ phase = "running"
    /\ phase' = "stopping"
    /\ disp_running' = FALSE
    /\ UNCHANGED <<taxis, orders, clients, order_queue, dispatchers,
                   workers, rides, monitors, taxi_running>>

\* TaxiParkSimulator.stop, second half: TaxiService.stop
TaxiService_stop ==
    /\ phase = "stopping"
    /\ phase' = "stopped"
    /\ taxi_running' = FALSE
    /\ UNCHANGED <<taxis, orders, clients, order_queue, dispatchers,
                   workers, rides, monitors, disp_running>>

(***************************************************************************)
(* ClientService.create_client: Client, Client.place_order, the patience   *)
(* thread                                                                  *)
(***************************************************************************)
NewOrder(c, from, to) ==
    [client |-> c, from_location |-> from, to_location |-> to, taxi |-> None,
     is_cancelled |-> FALSE, assigned_event |-> FALSE]

create_client(from, to) ==
    /\ Len(clients) < MaxOrders
    /\ Len(taxis) + Len(clients) < MaxLoad
    /\ LET c == Len(clients) + 1 IN
        /\ clients' = Append(clients, [location |-> from, status |-> "waiting",
                                       current_order |-> c])
        /\ orders' = Append(orders, NewOrder(c, from, to))
        /\ order_queue' = Append(order_queue, c)
        /\ monitors' = Append(monitors, [pc |-> "wait"])
    /\ UNCHANGED <<taxis, dispatchers, workers, rides, disp_running,
                   taxi_running, phase>>

(***************************************************************************)
(* DispatcherService._dispatcher_worker                                    *)
(***************************************************************************)
\* the thread starts: while self.is_running: dispatcher.set_status(IDLE)
worker_loop(d) ==
    /\ workers[d].pc = "loop"
    /\ IF disp_running
       THEN /\ workers' = [workers EXCEPT ![d].pc = "get"]
            /\ dispatchers' = [dispatchers EXCEPT ![d].status = "idle"]
       ELSE /\ workers' = [workers EXCEPT ![d].pc = "exit"]
            /\ UNCHANGED dispatchers
    /\ UNCHANGED <<taxis, orders, clients, order_queue, rides, monitors,
                   disp_running, taxi_running, phase>>

\* _process_order has returned and the loop condition `while self.is_running`
\* is tested again: the worker polls the queue, or its thread ends
Looped(dispatcher) == IF disp_running THEN [dispatcher EXCEPT !.status = "idle"]
                                      ELSE dispatcher

Returned(w) == [w EXCEPT !.pc = IF disp_running THEN "get" ELSE "exit",
                         !.order = None, !.i = 0,
                         !.nearest = None, !.min_distance = Inf,
                         !.at_get = <<>>, !.seen = <<>>]

\* a worker that treats a cancelled order like any other
SkipNothing(order) == FALSE

\* _process_order: if order.is_cancelled: ...; return
SkipOrder(order) == order.is_cancelled

\* a worker that counts a dropped order as processed
worker_get_counting(d) ==
    /\ workers[d].pc = "get"
    /\ order_queue /= <<>>
    /\ LET o == Head(order_queue) IN
       workers' = [workers EXCEPT ![d] =
                     IF SkipOrder(orders[o]) THEN Returned(@)
                     ELSE [@ EXCEPT !.pc = "scan", !.order = o, !.i = 1,
                                    !.at_get = [v \in TaxiIds |->
                                                  taxis[v].status /= "free"]]]
    /\ order_queue' = Tail(order_queue)
    /\ dispatchers' = [dispatchers EXCEPT ![d] =
                         IF SkipOrder(orders[Head(order_queue)])
                         THEN Looped([@ EXCEPT !.status = "processing",
                                               !.processed_orders = @ + 1])
                         ELSE [@ EXCEPT !.status = "processing"]]
    /\ UNCHANGED <<taxis, orders, clients, rides, monitors, disp_running,
                   taxi_running, phase>>

\* order = self.order_queue.get(timeout=0.5); set_status(PROCESSING);
\* _process_order begins: a cancelled order is dropped, any other is scanned for
worker_get(d) ==
    /\ workers[d].pc = "get"
    /\ order_queue /= <<>>
    /\ LET o == Head(order_queue) IN
       workers' = [workers EXCEPT ![d] =
                     IF SkipOrder(orders[o]) THEN Returned(@)
                     ELSE [@ EXCEPT !.pc = "scan", !.order = o, !.i = 1,
                                    !.at_get = [v \in TaxiIds |->
                                                  taxis[v].status /= "free"]]]
    /\ order_queue' = Tail(order_queue)
    /\ dispatchers' = [dispatchers EXCEPT ![d] =
                         IF SkipOrder(orders[Head(order_queue)])
                         THEN Looped([@ EXCEPT !.status = "processing"])
                         ELSE [@ EXCEPT !.status = "processing"]]
    /\ UNCHANGED <<taxis, orders, clients, rides, monitors, disp_running,
                   taxi_running, phase>>

\* a worker that polls the empty queue again whatever the flag says
worker_get_empty_forever(d) ==
    /\ workers[d].pc = "get"
    /\ order_queue = <<>>
    /\ dispatchers' = [dispatchers EXCEPT ![d].status = "idle"]
    /\ UNCHANGED <<taxis, orders, clients, order_queue, workers, rides, monitors,
                   disp_running, taxi_running, phase>>

\* except Empty: continue; while self.is_running: set_status(IDLE): the poll
\* timed out on an empty queue, and the worker polls again or leaves its loop
worker_get_empty(d) ==
    /\ workers[d].pc = "get"
    /\ order_queue = <<>>
    /\ workers' = [workers EXCEPT ![d].pc = IF disp_running THEN "get" ELSE "exit"]
    /\ dispatchers' = [dispatchers EXCEPT ![d] = Looped(@)]
    /\ UNCHANGED <<taxis, orders, clients, order_queue, rides, monitors,
                   disp_running, taxi_running, phase>>

(***************************************************************************)
(* DispatcherService._process_order and TaxiService.find_nearest_taxi      *)
(***************************************************************************)
\* a scan that takes any taxi for a candidate
AnyTaxi(taxi) == TRUE

\* if taxi.status == TaxiStatus.FREE
IsCandidate(taxi) == taxi.status = "free"

\* what one inspection found: the taxi free or not, and how far if free
Observation(taxi, distance) ==
    [free |-> taxi.status = "free",
     distance |-> IF taxi.status = "free" THEN distance ELSE 0]

\* find_nearest_taxi, one iteration: with taxi.lock: inspect one taxi
find_nearest_taxi_step(d) ==
    LET w == workers[d] IN
    /\ w.pc = "scan"
    /\ w.i <= Len(taxis)
    /\ LET distance == SqDistance(taxis[w.i].location, orders[w.order].from_location)
           better == IsCandidate(taxis[w.i]) /\ LessThan(distance, w.min_distance)
       IN workers' = [workers EXCEPT ![d] =
                        [@ EXCEPT !.i = w.i + 1,
                                  !.nearest = IF better THEN w.i ELSE @,
                                  !.min_distance = IF better THEN distance ELSE @,
                                  !.seen = Append(@, Observation(taxis[w.i], distance))]]
    /\ UNCHANGED <<taxis, orders, clients, order_queue, dispatchers, rides,
                   monitors, disp_running, taxi_running, phase>>

\* a queue that takes the order back at its head
RequeueFirst(queue, o) == <<o>> \o queue

\* a queue that takes the order back twice
RequeueTwice(queue, o) == Append(Append(queue, o), o)

\* the queue after `self.order_queue.put(order)`
Requeue(queue, o) == Append(queue, o)

\* a worker that signals the client although it found no taxi
process_no_taxi_signal(d) ==
    LET w == workers[d] IN
    /\ w.pc = "scan"
    /\ w.i > Len(taxis)
    /\ w.nearest = None
    /\ order_queue' = Requeue(order_queue, w.order)
    /\ orders' = [orders EXCEPT ![w.order].assigned_event = TRUE]
    /\ workers' = [workers EXCEPT ![d] = Returned(@)]
    /\ dispatchers' = [dispatchers EXCEPT ![d] = Looped(@)]
    /\ UNCHANGED <<taxis, clients, rides, monitors,
                   disp_running, taxi_running, phase>>

\* return nearest_taxi; if not taxi: self.order_queue.put(order); return
process_no_taxi(d) ==
    LET w == workers[d] IN
    /\ w.pc = "scan"
    /\ w.i > Len(taxis)
    /\ w.nearest = None
    /\ order_queue' = Requeue(order_queue, w.order)
    /\ workers' = [workers EXCEPT ![d] = Returned(@)]
    /\ dispatchers' = [dispatchers EXCEPT ![d] = Looped(@)]
    /\ UNCHANGED <<taxis, orders, clients, rides, monitors,
                   disp_running, taxi_running, phase>>

\* a worker whose commit revives a cancelled order
process_assign_revive(d) ==
    LET w == workers[d] IN
    /\ w.pc = "scan"
    /\ w.i > Len(taxis)
    /\ w.nearest /= None
    /\ taxis' = [taxis EXCEPT ![w.nearest].status = "busy",
                              ![w.nearest].order = w.order]
    /\ orders' = [orders EXCEPT ![w.order].taxi = w.nearest,
                                ![w.order].is_cancelled = FALSE]
    /\ workers' = [workers EXCEPT ![d].pc = "notify"]
    /\ UNCHANGED <<clients, order_queue, dispatchers, rides, monitors,
                   disp_running, taxi_running, phase>>

\* return nearest_taxi; with taxi.lock: taxi.status = BUSY; taxi.order = order;
\* order.taxi = taxi.  The status the scan saw is not read again.
process_assign(d) ==
    LET w == workers[d] IN
    /\ w.pc = "scan"
    /\ w.i > Len(taxis)
    /\ w.nearest /= None
    /\ taxis' = [taxis EXCEPT ![w.nearest].status = "busy",
                              ![w.nearest].order = w.order]
    /\ orders' = [orders EXCEPT ![w.order].taxi = w.nearest]
    /\ workers' = [workers EXCEPT ![d].pc = "notify"]
    /\ UNCHANGED <<clients, order_queue, dispatchers, rides, monitors,
                   disp_running, taxi_running, phase>>

NewRide(v, o) == [pc |-> "start", taxi |-> v, order |-> o, leg |-> 1,
                  current |-> <<0, 0>>, steps |-> 0, step |-> 0]

\* a worker that puts the order back on the queue although it has assigned it
process_notify_requeue(d) ==
    LET w == workers[d] IN
    /\ w.pc = "notify"
    /\ orders' = [orders EXCEPT ![w.order].assigned_event = TRUE]
    /\ dispatchers' = [dispatchers EXCEPT ![d] =
                         Looped([@ EXCEPT !.processed_orders = @ + 1])]
    /\ rides' = Append(rides, NewRide(w.nearest, w.order))
    /\ order_queue' = Requeue(order_queue, w.order)
    /\ workers' = [workers EXCEPT ![d] = Returned(@)]
    /\ UNCHANGED <<taxis, clients, monitors, disp_running, taxi_running, phase>>

\* order.assigned_event.set(); dispatcher.increment_processed();
\* ride_thread.start(): the event is the only one of the three another thread
\* reads, and the new thread's first statement is a step of its own
process_notify(d) ==
    LET w == workers[d] IN
    /\ w.pc = "notify"
    /\ orders' = [orders EXCEPT ![w.order].assigned_event = TRUE]
    /\ dispatchers' = [dispatchers EXCEPT ![d] =
                         Looped([@ EXCEPT !.processed_orders = @ + 1])]
    /\ rides' = Append(rides, NewRide(w.nearest, w.order))
    /\ workers' = [workers EXCEPT ![d] = Returned(@)]
    /\ UNCHANGED <<taxis, clients, order_queue, monitors, disp_running,
                   taxi_running, phase>>

(***************************************************************************)
(* TaxiService.simulate_ride and _move_taxi_to_target                      *)
(***************************************************************************)
\* the thread has ended: its locals are gone
Ended(r) == [r EXCEPT !.pc = "done", !.leg = 0, !.current = <<0, 0>>,
                      !.steps = 0, !.step = 0]

\* the target of the leg the ride is on
Target(r) == IF r.leg = 1 THEN orders[r.order].from_location
                          ELSE orders[r.order].to_location

\* the statement after _move_taxi_to_target returns
AfterMove(r) == [r EXCEPT !.pc = IF r.leg = 1 THEN "check_cancelled" ELSE "finish",
                          !.current = <<0, 0>>, !.steps = 0, !.step = 0]

\* _move_taxi_to_target begins: current_location = taxi.get_location();
\* steps = calculate_movement_steps(current_location, target, taxi.speed)
MoveBegun(r, leg) ==
    LET from == taxis[r.taxi].location
        to == Target([r EXCEPT !.leg = leg])
    IN [r EXCEPT !.pc = "loop", !.leg = leg, !.current = from, !.step = 0,
                 !.steps = calculate_movement_steps(from, to, Speed)]

\* taxi.status = TaxiStatus.MOVING_TO_CLIENT     (the lock is not taken);
\* self._move_taxi_to_target(taxi, order.from_location) begins
ride_set_moving(r) ==
    /\ rides[r].pc = "start"
    /\ taxis' = [taxis EXCEPT ![rides[r].taxi].status = "moving_to_client"]
    /\ rides' = [rides EXCEPT ![r] = MoveBegun(@, 1)]
    /\ UNCHANGED <<orders, clients, order_queue, dispatchers, workers,
                   monitors, disp_running, taxi_running, phase>>

\* for step in range(steps): if not self.is_running or (... taxi.order and
\* the first read of taxi.order
move_loop(r) ==
    LET v == rides[r].taxi IN
    /\ rides[r].pc = "loop"
    /\ rides' = [rides EXCEPT ![r] =
                   IF ~taxi_running THEN AfterMove(@)
                   ELSE IF taxis[v].order = None THEN [@ EXCEPT !.pc = "set_location"]
                   ELSE [@ EXCEPT !.pc = "loop_cancelled"]]
    /\ UNCHANGED <<taxis, orders, clients, order_queue, dispatchers, workers,
                   monitors, disp_running, taxi_running, phase>>

\* the taxi's location after step `step` of `steps` from `current` to `target`:
\* (int(current_x + dx * progress), int(current_y + dy * progress))
NextLocation(ride) ==
    LET target == Target(ride) IN
    << Interpolate(ride.current[1], target[1] - ride.current[1], ride.step, ride.steps),
       Interpolate(ride.current[2], target[2] - ride.current[2], ride.step, ride.steps) >>

\* the loop goes on, or range(steps) is used up and the move returns
Stepped(ride) == IF ride.step + 1 < ride.steps
                 THEN [ride EXCEPT !.pc = "loop", !.step = @ + 1]
                 ELSE AfterMove(ride)

\* ... taxi.order.is_cancelled): break        the second read of taxi.order: on
\* None the attribute access raises and simulate_ride's except runs; on a
\* cancelled order the loop breaks; else taxi.set_location(...); time.sleep(0.05)
move_step(r) ==
    LET v == rides[r].taxi
        ride == rides[r]
        second == IF ride.pc = "set_location" THEN ride.order ELSE taxis[v].order
    IN
    /\ ride.pc \in {"loop_cancelled", "set_location"}
    /\ IF ride.pc = "loop_cancelled" /\ second = None
       THEN /\ rides' = [rides EXCEPT ![r] = [Ended(@) EXCEPT !.pc = "except"]]
            /\ UNCHANGED taxis
       ELSE IF ride.pc = "loop_cancelled" /\ orders[second].is_cancelled
       THEN /\ rides' = [rides EXCEPT ![r] = AfterMove(@)]
            /\ UNCHANGED taxis
       ELSE /\ taxis' = [taxis EXCEPT ![v].location = NextLocation(ride)]
            /\ rides' = [rides EXCEPT ![r] = Stepped(@)]
    /\ UNCHANGED <<orders, clients, order_queue, dispatchers, workers,
                   monitors, disp_running, taxi_running, phase>>

\* if order.is_cancelled: ...; return
ride_check_cancelled(r) ==
    /\ rides[r].pc = "check_cancelled"
    /\ rides' = [rides EXCEPT ![r] =
                   IF orders[@.order].is_cancelled THEN Ended(@)
                   ELSE [@ EXCEPT !.pc = "pickup"]]
    /\ UNCHANGED <<taxis, orders, clients, order_queue, dispatchers, workers,
                   monitors, disp_running, taxi_running, phase>>

\* with taxi.lock: taxi.status = TaxiStatus.ON_RIDE
ride_pickup(r) ==
    LET v == rides[r].taxi IN
    /\ rides[r].pc = "pickup"
    /\ taxis' = [taxis EXCEPT ![v].status = "on_ride"]
    /\ rides' = [rides EXCEPT ![r].pc = "seat"]
    /\ UNCHANGED <<orders, clients, order_queue, dispatchers, workers, monitors,
                   disp_running, taxi_running, phase>>

\* order.client.seet_in_taxi(): Client.set_status(ON_RIDE);
\* self._move_taxi_to_target(taxi, order.to_location) begins
ride_seat(r) ==
    /\ rides[r].pc = "seat"
    /\ clients' = [clients EXCEPT ![orders[rides[r].order].client].status = "on_ride"]
    /\ rides' = [rides EXCEPT ![r] = MoveBegun(@, 2)]
    /\ UNCHANGED <<taxis, orders, order_queue, dispatchers, workers,
                   monitors, disp_running, taxi_running, phase>>

\* the taxi after `taxi.status = TaxiStatus.FREE; taxi.order = None`
Released(taxi) == [taxi EXCEPT !.status = "free", !.order = None]

\* a ride whose except branch frees the taxi but leaves it its order
ride_release_leaky(r) ==
    LET v == rides[r].taxi IN
    /\ rides[r].pc \in {"finish", "except"}
    /\ taxis' = [taxis EXCEPT ![v] = IF rides[r].pc = "except"
                                     THEN [@ EXCEPT !.status = "free"]
                                     ELSE Released(@)]
    /\ rides' = [rides EXCEPT ![r] = Ended(@)]
    /\ UNCHANGED <<orders, clients, order_queue, dispatchers, workers, monitors,
                   disp_running, taxi_running, phase>>

\* with taxi.lock: taxi.status = FREE; taxi.order = None: the end of the ride,
\* and the same block in the except branch
ride_release(r) ==
    LET v == rides[r].taxi IN
    /\ rides[r].pc \in {"finish", "except"}
    /\ taxis' = [taxis EXCEPT ![v] = Released(@)]
    /\ rides' = [rides EXCEPT ![r] = Ended(@)]
    /\ UNCHANGED <<orders, clients, order_queue, dispatchers, workers, monitors,
                   disp_running, taxi_running, phase>>

(***************************************************************************)
(* ClientService._client_waiting_worker and Order.cancel                   *)
(***************************************************************************)
\* a patience thread with the second test inverted
CancelOnlyCancelled(assigned, is_cancelled) == ~assigned /\ is_cancelled

\* if not assigned and not client.current_order.is_cancelled
ShouldCancel(assigned, is_cancelled) == ~assigned /\ ~is_cancelled

\* assigned = assigned_event.wait(timeout=patience): the event is set, or the
\* patience runs out first; then the test that guards cancel()
client_wait(c) ==
    LET order == orders[clients[c].current_order] IN
    /\ monitors[c].pc = "wait"
    /\ monitors' = [monitors EXCEPT ![c].pc =
                      IF ShouldCancel(order.assigned_event, order.is_cancelled)
                      THEN "cancel" ELSE "done"]
    /\ UNCHANGED <<taxis, orders, clients, order_queue, dispatchers, workers,
                   rides, disp_running, taxi_running, phase>>

\* Order.cancel: self.is_cancelled = True
cancel_set(c) ==
    /\ monitors[c].pc = "cancel"
    /\ orders' = [orders EXCEPT ![clients[c].current_order].is_cancelled = TRUE]
    /\ monitors' = [monitors EXCEPT ![c].pc = "cancel_taxi"]
    /\ UNCHANGED <<taxis, clients, order_queue, dispatchers, workers, rides,
                   disp_running, taxi_running, phase>>

\* Order.cancel: if self.taxi: with self.taxi.lock: self.taxi.status = FREE;
\* self.taxi.order = None
cancel_release(c) ==
    LET v == orders[clients[c].current_order].taxi IN
    /\ monitors[c].pc = "cancel_taxi"
    /\ taxis' = IF v /= None THEN [taxis EXCEPT ![v] = Released(@)] ELSE taxis
    /\ monitors' = [monitors EXCEPT ![c].pc = "refused"]
    /\ UNCHANGED <<orders, clients, order_queue, dispatchers, workers, rides,
                   disp_running, taxi_running, phase>>

\* client.refused(): Client.set_status(REFUSED)
client_refused(c) ==
    /\ monitors[c].pc = "refused"
    /\ clients' = [clients EXCEPT ![c].status = "refused"]
    /\ monitors' = [monitors EXCEPT ![c].pc = "done"]
    /\ UNCHANGED <<taxis, orders, order_queue, dispatchers, workers, rides,
                   disp_running, taxi_running, phase>>

(***************************************************************************)
(* The system                                                              *)
(***************************************************************************)
Worker(d) ==
    \/ worker_loop(d)
    \/ worker_get(d)
    \/ worker_get_empty(d)
    \/ find_nearest_taxi_step(d)
    \/ process_no_taxi(d)
    \/ process_assign(d)
    \/ process_notify(d)

Ride(r) ==
    \/ ride_set_moving(r)
    \/ move_loop(r)
    \/ move_step(r)
    \/ ride_check_cancelled(r)
    \/ ride_pickup(r)
    \/ ride_seat(r)
    \/ ride_release(r)

Monitor(c) ==
    \/ client_wait(c)
    \/ cancel_set(c)
    \/ cancel_release(c)
    \/ client_refused(c)

\* a step in which every `with` block is entered, run and left at once: no
\* lock is held before the step or after it
Unlocked == UNCHANGED held

\* the engine without stop(): GUI and main thread create clients, the threads run
Next ==
    \/ start_dispatchers /\ Unlocked
    \/ create_client(Pickup, Dropoff) /\ Unlocked
    \/ \E d \in Dispatchers : worker_loop(d) /\ Unlocked
    \/ \E d \in Dispatchers : worker_get(d) /\ Unlocked
    \/ \E d \in Dispatchers : worker_get_empty(d) /\ Unlocked
    \/ \E d \in Dispatchers : find_nearest_taxi_step(d) /\ Unlocked
    \/ \E d \in Dispatchers : process_no_taxi(d) /\ Unlocked
    \/ \E d \in Dispatchers : process_assign(d) /\ Unlocked
    \/ \E d \in Dispatchers : process_notify(d) /\ Unlocked
    \/ \E r \in RideIds : ride_set_moving(r) /\ Unlocked
    \/ \E r \in RideIds : move_loop(r) /\ Unlocked
    \/ \E r \in RideIds : move_step(r) /\ Unlocked
    \/ \E r \in RideIds : ride_check_cancelled(r) /\ Unlocked
    \/ \E r \in RideIds : ride_pickup(r) /\ Unlocked
    \/ \E r \in RideIds : ride_seat(r) /\ Unlocked
    \/ \E r \in RideIds : ride_release(r) /\ Unlocked
    \/ \E c \in DOMAIN monitors : client_wait(c) /\ Unlocked
    \/ \E c \in DOMAIN monitors : cancel_set(c) /\ Unlocked
    \/ \E c \in DOMAIN monitors : cancel_release(c) /\ Unlocked
    \/ \E c \in DOMAIN monitors : client_refused(c) /\ Unlocked

Spec == Init /\ [][Next]_vars

\* the same with TaxiParkSimulator.stop() called at any moment
NextStop ==
    \/ DispatcherService_stop /\ Unlocked
    \/ TaxiService_stop /\ Unlocked
    \/ Next /\ Len(clients') <= MaxStopOrders

SpecStop == Init /\ [][NextStop]_vars

\* Every started thread is scheduled again and again (CPython hands the
\* interpreter lock on every few milliseconds), and every wait of the code is
\* bounded: the patience timeout, the queue poll of 0.5 s, the sleep of 0.05 s.
Fairness ==
    /\ \A d \in Dispatchers : WF_vars(Worker(d) /\ Unlocked)
    /\ \A r \in 1 .. MaxOrders : WF_vars(r \in RideIds /\ Ride(r) /\ Unlocked)
    /\ \A c \in 1 .. MaxOrders :
           WF_vars(c \in DOMAIN monitors /\ Monitor(c) /\ Unlocked)

\* the fair runs of the engine with the whole fleet parked at the pickup point
LiveInit == Init /\ \A v \in DOMAIN taxis : taxis[v].location = Pickup

LiveSpec == LiveInit /\ [][Next]_vars /\ Fairness

\* the fair runs in which stop() may be called
LiveStopSpec == Init /\ [][NextStop]_vars /\ Fairness

(***************************************************************************)
(* Order.cancel called once more                                           *)
(***************************************************************************)
\* Order.cancel, the whole method, called by any holder of the order on an
\* order that is cancelled already: self.is_cancelled = True; if self.taxi:
\* with self.taxi.lock: self.taxi.status = FREE; self.taxi.order = None
Order_cancel(o) ==
    LET v == orders[o].taxi IN
    /\ orders[o].is_cancelled
    /\ orders' = [orders EXCEPT ![o].is_cancelled = TRUE]
    /\ taxis' = IF v /= None THEN [taxis EXCEPT ![v] = Released(@)] ELSE taxis
    /\ UNCHANGED <<clients, order_queue, dispatchers, workers, rides, monitors,
                   disp_running, taxi_running, phase>>

NextRecancel ==
    \/ Next
    \/ \E o \in OrderIds : Order_cancel(o) /\ Unlocked

SpecRecancel == Init /\ [][NextRecancel]_vars

(***************************************************************************)
(* simulate_ride raises                                                    *)
(***************************************************************************)
\* try: ... except Exception as e: any statement of the try body raises, at
\* either movement leg, the cancellation test, the pickup, the seating or the
\* final block, and control passes to the except branch
simulate_ride_raises(r) ==
    /\ rides[r].pc \in {"start", "loop", "loop_cancelled", "set_location",
                        "check_cancelled", "pickup", "seat", "finish"}
    /\ rides' = [rides EXCEPT ![r] = [Ended(@) EXCEPT !.pc = "except"]]
    /\ UNCHANGED <<taxis, orders, clients, order_queue, dispatchers, workers,
                   monitors, disp_running, taxi_running, phase>>

NextFault ==
    \/ Next
    \/ \E r \in RideIds : simulate_ride_raises(r) /\ Unlocked

\* the fair runs of the engine in which rides may raise
LiveFaultSpec == LiveInit /\ [][NextFault]_vars /\ Fairness

(***************************************************************************)
(* The locks: Taxi.lock, Client.lock, Dispatcher.lock                      *)
(***************************************************************************)
\* the threads that take locks
Tasks == {<<"worker", d>> : d \in Dispatchers}
         \cup {<<"ride", r>> : r \in RideIds}
         \cup {<<"monitor", c>> : c \in DOMAIN monitors}

TaxiLock(v) == <<"taxi", v>>
ClientLock(c) == <<"client", c>>
DispatcherLock(d) == <<"dispatcher", d>>
\* stands in `held` for a block that was left: its lock is free again
NoLock == <<"none", 0>>

\* The `with` blocks the next step of a task runs, in their order, each named
\* by its lock.  _dispatcher_worker: set_status and increment_processed take
\* the dispatcher's lock, find_nearest_taxi and the assignment the taxi's.
WorkerLocks(d) ==
    LET w == workers[d] IN
    CASE w.pc = "loop" -> IF disp_running THEN <<DispatcherLock(d)>> ELSE <<>>
      [] w.pc = "get" -> IF order_queue /= <<>> \/ disp_running
                         THEN <<DispatcherLock(d)>> ELSE <<>>
      [] w.pc = "scan" /\ w.i <= Len(taxis) -> <<TaxiLock(w.i)>>
      [] w.pc = "scan" /\ w.i > Len(taxis) /\ w.nearest /= None ->
             <<TaxiLock(w.nearest)>>
      [] w.pc = "scan" /\ w.i > Len(taxis) /\ w.nearest = None ->
             IF disp_running THEN <<DispatcherLock(d)>> ELSE <<>>
      [] w.pc = "notify" -> <<DispatcherLock(d)>>
      [] OTHER -> <<>>

\* simulate_ride: get_location, set_location and the three status blocks take
\* the taxi's lock, seet_in_taxi the client's, and then the second
\* _move_taxi_to_target reads the location under the taxi's lock
RideLocks(r) ==
    LET ride == rides[r]
        v == ride.taxi
    IN
    CASE ride.pc \in {"start", "set_location", "pickup", "finish", "except"} ->
             <<TaxiLock(v)>>
      [] ride.pc = "loop_cancelled" ->
             IF taxis[v].order /= None /\ ~orders[taxis[v].order].is_cancelled
             THEN <<TaxiLock(v)>> ELSE <<>>
      [] ride.pc = "seat" -> <<ClientLock(orders[ride.order].client), TaxiLock(v)>>
      [] OTHER -> <<>>

\* _client_waiting_worker: Order.cancel takes the lock of the order's taxi if
\* it has one, client.refused() the client's
MonitorLocks(c) ==
    LET v == orders[clients[c].current_order].taxi IN
    CASE monitors[c].pc = "cancel_taxi" -> IF v /= None THEN <<TaxiLock(v)>> ELSE <<>>
      [] monitors[c].pc = "refused" -> <<ClientLock(c)>>
      [] OTHER -> <<>>

Wanted(t) == CASE t[1] = "worker" -> WorkerLocks(t[2])
               [] t[1] = "ride" -> RideLocks(t[2])
               [] t[1] = "monitor" -> MonitorLocks(t[2])

\* `held` holds <<task, lock, n>>: the task has taken the lock, for the n-th
\* block of the step it is in, and <<task, NoLock, n>>: the task has left the
\* n-th block of its step and is not yet in the next
Holding(t) == {p[2] : p \in {q \in held : q[1] = t /\ q[2] /= NoLock}}

Inside(t) ==
    LET mine == {p \in held : p[1] = t /\ p[2] /= NoLock /\ p[3] > 0}
    IN IF mine = {} THEN 0 ELSE (CHOOSE p \in mine : TRUE)[3]

Passed(t) ==
    LET mine == {p \in held : p[1] = t /\ p[2] = NoLock}
    IN IF mine = {} THEN 0 ELSE (CHOOSE p \in mine : TRUE)[3]

\* threading.Lock: free when no task has taken it (the lock is not reentrant)
IsFree(lock) == \A p \in held : p[2] /= lock

\* a `with` statement that never gives its lock back
with_exit_keeping(h, t) ==
    {p \in h : p[1] /= t \/ p[3] = 0}
    \cup {<<t, p[2], 0>> : p \in {q \in h : q[1] = t /\ q[3] > 0 /\ q[2] /= NoLock}}

\* the end of a `with lock:` block: the lock taken for it is released
with_exit(h, t) == {p \in h : p[1] /= t \/ p[3] = 0}

\* `with lock:` is reached: the task waits until the lock is free and takes it
with_enter(t) ==
    LET n == Passed(t) + 1 IN
    /\ Inside(t) = 0
    /\ n <= Len(Wanted(t))
    /\ IsFree(Wanted(t)[n])
    /\ held' = {p \in held : p[1] /= t \/ p[2] /= NoLock} \cup {<<t, Wanted(t)[n], n>>}
    /\ UNCHANGED <<taxis, orders, clients, order_queue, dispatchers, workers,
                   rides, monitors, disp_running, taxi_running, phase>>

\* a block that is not the last of its step is left
with_leave(t) ==
    LET n == Inside(t) IN
    /\ n > 0
    /\ n < Len(Wanted(t))
    /\ held' = with_exit(held, t) \cup {<<t, NoLock, n>>}
    /\ UNCHANGED <<taxis, orders, clients, order_queue, dispatchers, workers,
                   rides, monitors, disp_running, taxi_running, phase>>

\* the task is in the last block of its step, or the step has no block
InBlock(t) == Len(Wanted(t)) = 0 \/ Inside(t) = Len(Wanted(t))

\* the step itself, run inside its block, and the block left
Locked(t) == InBlock(t) /\ held' = with_exit(held, t)

\* the engine with every lock taken and released in a step of its own
LockNext ==
    \/ start_dispatchers /\ Unlocked
    \/ create_client(Pickup, Dropoff) /\ Len(clients') <= MaxLockOrders /\ Unlocked
    \/ \E t \in Tasks : with_enter(t)
    \/ \E t \in Tasks : with_leave(t)
    \/ \E d \in Dispatchers : Worker(d) /\ Locked(<<"worker", d>>)
    \/ \E r \in RideIds : Ride(r) /\ Locked(<<"ride", r>>)
    \/ \E c \in DOMAIN monitors : Monitor(c) /\ Locked(<<"monitor", c>>)

LockSpec == Init /\ [][LockNext]_vars

\* the task waits in `with lock:` for a lock another task, or itself, holds
Waiting(t) ==
    /\ Inside(t) = 0
    /\ Passed(t) < Len(Wanted(t))
    /\ ~IsFree(Wanted(t)[Passed(t) + 1])

\* the tasks that hold the lock the task waits for
Holders(t) == {u \in Tasks : Wanted(t)[Passed(t) + 1] \in Holding(u)}

(***************************************************************************)
(* What the threads of one order are doing                                 *)
(***************************************************************************)
\* the order waits in the queue
InQueue(o) == \E k \in 1 .. Len(order_queue) : order_queue[k] = o

\* a worker has taken the order from the queue and is inside _process_order
Held(o) == \E d \in Dispatchers : workers[d].order = o

\* the simulate_ride thread started for the order has ended
RideEnded(o) == \E r \in RideIds : rides[r].order = o /\ rides[r].pc = "done"

\* the order holds a vehicle: assigned, not cancelled, its ride not over
Active(o) == /\ orders[o].taxi /= None
             /\ ~orders[o].is_cancelled
             /\ ~RideEnded(o)

\* the order's assignment is committed and signalled, or the order is cancelled
Settled(o) == /\ o \in OrderIds
              /\ \/ orders[o].taxi /= None /\ orders[o].assigned_event
                 \/ orders[o].is_cancelled

\* no worker will look at the order again
Dropped(o) == o \in OrderIds /\ ~InQueue(o) /\ ~Held(o)

\* no thread has anything left to do: only a new client can change the state
Quiescent ==
    /\ order_queue = <<>>
    /\ \A d \in Dispatchers : workers[d].pc \in {"off", "get", "exit"}
    /\ \A r \in RideIds : rides[r].pc = "done"
    /\ \A c \in DOMAIN monitors : monitors[c].pc = "done"

(***************************************************************************)
(* C1                                                                      *)
(***************************************************************************)
\* C1: a taxi that is not free carries an order, that order names the taxi,
\* and no other order that is still active (assigned, not cancelled, its ride
\* not over) names the same taxi.
SingleAssignment ==
    \A v \in TaxiIds :
        taxis[v].status /= "free" =>
            /\ taxis[v].order /= None
            /\ orders[taxis[v].order].taxi = v
            /\ \A o \in OrderIds :
                   (orders[o].taxi = v /\ Active(o)) => o = taxis[v].order

(***************************************************************************)
(* C2                                                                      *)
(***************************************************************************)
\* C2: whenever a worker commits an assignment (the `with taxi.lock:` block of
\* _process_order), the taxi it commits is free at that moment.
CommitOnlyFree ==
    [][\A d \in Dispatchers :
          process_assign(d) => taxis[workers[d].nearest].status = "free"]_vars

(***************************************************************************)
(* C3                                                                      *)
(***************************************************************************)
\* C3: an order that has a taxi is never back in the queue nor scanned for by a
\* worker, and as long as it is neither cancelled nor its ride over, no step
\* changes its taxi.
AssignedOnce ==
    /\ [](\A o \in OrderIds :
            orders[o].taxi /= None =>
                /\ ~InQueue(o)
                /\ \A d \in Dispatchers :
                       workers[d].order = o => workers[d].pc = "notify")
    /\ [][\A o \in OrderIds :
            Active(o) => orders'[o].taxi = orders[o].taxi]_vars

\* an order is assigned and active while a worker runs the matching for another
\* order
AssignedWhileMatching ==
    \E o \in OrderIds : \E d \in Dispatchers :
        /\ Active(o)
        /\ orders[o].assigned_event
        /\ workers[d].pc = "scan"
        /\ workers[d].order /= o
        /\ workers[d].i > Len(taxis)

(***************************************************************************)
(* C4                                                                      *)
(***************************************************************************)
\* C4: no client is both refused and seated in a taxi for the same order:
\* a client shown as refused is not in a ride that is on its second leg, and a
\* client shown as riding has not been through cancel() and refused().
RefusedXorRiding ==
    \A c \in DOMAIN clients :
        /\ ~(/\ clients[c].status = "refused"
             /\ \E r \in RideIds : rides[r].order = c /\ rides[r].leg = 2)
        /\ ~(/\ clients[c].status = "on_ride"
             /\ orders[c].is_cancelled
             /\ monitors[c].pc = "done")

(***************************************************************************)
(* C5                                                                      *)
(***************************************************************************)
\* C5: once a cancelled order that was given a taxi has seen both its patience
\* thread and its ride thread end, the taxi (which no other order was ever
\* given) is free and carries no order.
CancelledLeavesFree ==
    \A o \in OrderIds :
        LET v == orders[o].taxi IN
        (/\ orders[o].is_cancelled
         /\ v /= None
         /\ monitors[o].pc = "done"
         /\ RideEnded(o)
         /\ \A p \in OrderIds \ {o} : orders[p].taxi /= v)
        => (taxis[v].status = "free" /\ taxis[v].order = None)

(***************************************************************************)
(* C6                                                                      *)
(***************************************************************************)
\* C6: every order that is not settled is in the queue or in the hands of a
\* worker, and every order created is eventually settled: assigned and
\* signalled, or cancelled.
EventuallySettled ==
    /\ [](\A o \in OrderIds : ~Settled(o) => (InQueue(o) \/ Held(o)))
    /\ \A c \in 1 .. MaxOrders : (c \in OrderIds) ~> Settled(c)

\* more orders than taxis: one order got the taxi, another was cancelled
\* without ever having one
SettledUnderScarcity ==
    /\ Len(taxis) >= 1
    /\ Len(orders) > Len(taxis)
    /\ disp_running
    /\ \E a \in OrderIds : \E b \in OrderIds :
           /\ orders[a].taxi /= None /\ orders[a].assigned_event
           /\ ~orders[a].is_cancelled
           /\ orders[b].is_cancelled /\ orders[b].taxi = None
           /\ Dropped(b)

(***************************************************************************)
(* C7                                                                      *)
(***************************************************************************)
\* C7: when every thread has ended or idles on an empty queue, every taxi is
\* free.
NoStuckTaxi ==
    Quiescent => \A v \in TaxiIds : taxis[v].status = "free"

(***************************************************************************)
(* C8                                                                      *)
(***************************************************************************)
\* C8: cancel() on an order that is cancelled already leaves alone every taxi
\* that carries another order.
RecancelSparesOthers ==
    [][\A o \in OrderIds :
          Order_cancel(o) =>
              \A v \in TaxiIds :
                  (taxis[v].order /= None /\ taxis[v].order /= o)
                  => taxis'[v] = taxis[v]]_vars

(***************************************************************************)
(* C9                                                                      *)
(***************************************************************************)
\* C9: a taxi carries an order exactly when it is not free.
OrderIffNotFree ==
    \A v \in TaxiIds : (taxis[v].order /= None) <=> (taxis[v].status /= "free")

(***************************************************************************)
(* C10                                                                     *)
(***************************************************************************)
\* C10: with no taxi at all, no order is ever assigned or signalled, and from
\* some moment on every order created (there are finitely many) is cancelled
\* with its client refused and, if the workers run, has left the queue and the
\* workers' hands for good.
ZeroFleet ==
    /\ [](Len(taxis) = 0 =>
            \A o \in OrderIds : orders[o].taxi = None /\ ~orders[o].assigned_event)
    /\ <>[](Len(taxis) = 0 =>
              \A o \in OrderIds :
                  /\ orders[o].is_cancelled
                  /\ clients[o].status = "refused"
                  /\ disp_running => Dropped(o))

\* no taxi, workers running: an order is cancelled, its client refused, and the
\* order has left the queue while another is still being requeued
ZeroFleetRefused ==
    /\ Len(taxis) = 0
    /\ disp_running
    /\ \E c \in OrderIds :
           /\ orders[c].is_cancelled
           /\ clients[c].status = "refused"
           /\ Dropped(c)
           /\ orders[c].taxi = None /\ ~orders[c].assigned_event

(***************************************************************************)
(* C11                                                                     *)
(***************************************************************************)
\* the scan of worker d is over and observed no free taxi
SawNoneFree(d) ==
    \A k \in 1 .. Len(workers[d].seen) : ~workers[d].seen[k].free

\* the step of worker d that ends its scan: requeue or commit
ScanVerdict(d) == process_no_taxi(d) \/ process_assign(d)

\* C11, as the code has it: a pass whose scan found every taxi taken puts its
\* order back at the tail and binds nothing, and a pass commits only a taxi
\* its scan observed free.
RequeuedWhenSeenTaken ==
    [][\A d \in Dispatchers :
          ScanVerdict(d) =>
              /\ SawNoneFree(d) =>
                    /\ order_queue' = Append(order_queue, workers[d].order)
                    /\ taxis' = taxis
                    /\ orders' = orders
              /\ orders' /= orders =>
                    /\ workers[d].nearest \in 1 .. Len(workers[d].seen)
                    /\ workers[d].seen[workers[d].nearest].free]_vars

\* C11, as stated: a pass that dequeued its order while the only taxi was not
\* free never ends in a commit.
RequeuedWhenDequeuedTaken ==
    [][\A d \in Dispatchers :
          (process_assign(d) /\ Len(taxis) = 1) => ~workers[d].at_get[1]]_vars

\* the only taxi carries the active order A, and the worker holding B has just
\* inspected it and found it taken
SecondOrderFindsTaken ==
    /\ Len(taxis) = 1
    /\ \E d \in Dispatchers :
          /\ workers[d].pc = "scan"
          /\ workers[d].i > Len(taxis)
          /\ SawNoneFree(d)
          /\ workers[d].at_get[1]
          /\ taxis[1].order /= None
          /\ taxis[1].order /= workers[d].order
          /\ Active(taxis[1].order)

(***************************************************************************)
(* C12                                                                     *)
(***************************************************************************)
\* one taxi, one order, and the order neither cancelled nor about to be: its
\* patience thread still waits or has seen the event
Solo ==
    /\ Len(taxis) = 1
    /\ Len(orders) = 1
    /\ ~orders[1].is_cancelled
    /\ monitors[1].pc \in {"wait", "done"}

\* free -> busy -> moving_to_client -> on_ride -> free
StatusCycle == { <<"free", "busy">>, <<"busy", "moving_to_client">>,
                 <<"moving_to_client", "on_ride">>, <<"on_ride", "free">> }

\* C12: with one taxi and one order that is not cancelled, every change of the
\* taxi's status is the next step of free, busy, moving_to_client, on_ride,
\* free; when the ride thread has ended the taxi is free, carries no order and
\* stands at the order's to_location; and once the workers run, the ride
\* thread does end (unless the order is cancelled or a second one arrives).
OneRide ==
    /\ [][(Solo /\ taxis'[1].status /= taxis[1].status)
            => <<taxis[1].status, taxis'[1].status>> \in StatusCycle]_vars
    /\ []((Solo /\ RideEnded(1)) =>
            /\ taxis[1].status = "free"
            /\ taxis[1].order = None
            /\ taxis[1].location = orders[1].to_location)
    /\ (Solo /\ disp_running) ~> (~Solo \/ RideEnded(1))

\* the single ride is over: taxi free at the dropoff point, client seated on
\* the way
OneRideOver ==
    /\ Solo
    /\ RideEnded(1)
    /\ clients[1].status = "on_ride"
    /\ taxis[1].status = "free"
    /\ taxis[1].location = Dropoff
    /\ dispatchers[1].processed_orders + dispatchers[2].processed_orders = 1

(***************************************************************************)
(* C13                                                                     *)
(***************************************************************************)
\* C13: the step that ends a ride after its second leg, with the taxi at the
\* order's to_location and the order not cancelled, leaves the taxi free
\* without an order, the order without a taxi and the client arrived.
CompletedMeansArrived ==
    [][\A r \in RideIds :
          LET o == rides[r].order
              v == rides[r].taxi
          IN (/\ ride_release(r)
              /\ rides[r].pc = "finish"
              /\ ~orders[o].is_cancelled
              /\ taxis[v].location = orders[o].to_location)
             => (/\ taxis'[v].status = "free"
                 /\ taxis'[v].order = None
                 /\ orders'[o].taxi = None
                 /\ clients'[orders[o].client].status = "arrived")]_vars

(***************************************************************************)
(* C14                                                                     *)
(***************************************************************************)
\* C14: no step takes is_cancelled of any order from true back to false.
CancelledForGood ==
    [][\A o \in OrderIds : orders[o].is_cancelled => orders'[o].is_cancelled]_vars

\* an order was cancelled while a worker was committing it: worker, ride
\* thread and patience thread have all handled it since, and it is cancelled
CancelledThenHandled ==
    \E o \in OrderIds :
        /\ orders[o].is_cancelled
        /\ orders[o].taxi /= None
        /\ orders[o].assigned_event
        /\ RideEnded(o)
        /\ monitors[o].pc = "done"

(***************************************************************************)
(* C15                                                                     *)
(***************************************************************************)
\* every worker thread has left `while self.is_running`
AllWorkersExited == \A d \in Dispatchers : workers[d].pc = "exit"

\* C15: a worker that has left its loop does nothing any more (it takes no
\* order from the queue and commits no taxi), and once stop() has cleared the
\* flag every worker leaves its loop.
GracefulStop ==
    /\ [][\A d \in Dispatchers :
            workers[d].pc = "exit" =>
                /\ workers'[d] = workers[d]
                /\ dispatchers'[d] = dispatchers[d]
                /\ ~worker_get(d)
                /\ ~process_assign(d)]_vars
    /\ (phase /= "created" /\ ~disp_running) ~> AllWorkersExited

\* stop() was called with an order still queued: the workers are gone, the
\* order is still there
StoppedWithQueue ==
    /\ phase = "stopped"
    /\ AllWorkersExited
    /\ order_queue /= <<>>
    /\ ~orders[Head(order_queue)].is_cancelled

(***************************************************************************)
(* C16                                                                     *)
(***************************************************************************)
\* no order can have been requeued so far: there are taxis and none was ever
\* given to an order, so every scan so far found a free taxi
NoRequeueYet ==
    /\ Len(taxis) >= 1
    /\ \A o \in OrderIds : orders[o].taxi = None

\* C16: the queue changes only by losing its head or by gaining one order at
\* its tail, and a worker takes the head; a requeue appends the worker's order
\* behind all that is queued and changes no order; no order is queued twice;
\* and as long as nothing was requeued the queue holds the orders in the order
\* of their submission, an earlier order leaving it before a later one.
QueueOrder ==
    /\ [][/\ order_queue' /= order_queue =>
                \/ order_queue /= <<>> /\ order_queue' = Tail(order_queue)
                \/ \E o \in 1 .. MaxOrders : order_queue' = Append(order_queue, o)
          /\ \A d \in Dispatchers :
                /\ worker_get(d) => workers'[d].order \in {None, Head(order_queue)}
                /\ process_no_taxi(d) =>
                      /\ order_queue' = Append(order_queue, workers[d].order)
                      /\ orders' = orders
                      /\ orders[workers[d].order].taxi = None]_vars
    /\ [](\A i \in 1 .. Len(order_queue) : \A j \in 1 .. Len(order_queue) :
              i < j => order_queue[i] /= order_queue[j])
    /\ [](NoRequeueYet =>
              /\ \A i \in 1 .. Len(order_queue) : \A j \in 1 .. Len(order_queue) :
                     i < j => order_queue[i] < order_queue[j]
              /\ \A a \in OrderIds : \A b \in OrderIds :
                     (a < b /\ InQueue(a)) => InQueue(b))

\* scarcity has reordered the queue: the earlier order stands behind the later
\* one, requeued as it was, while the later one was never taken
RequeuedBehind ==
    /\ Len(order_queue) = 2
    /\ order_queue[1] > order_queue[2]
    /\ \A o \in OrderIds :
           orders[o].taxi = None /\ ~orders[o].is_cancelled /\ ~Held(o)

(***************************************************************************)
(* C17                                                                     *)
(***************************************************************************)
\* C17: at every point of a scan, and when it has returned, the worker's
\* nearest is none exactly if no inspected taxi was seen free; otherwise it is
\* a taxi seen free, min_distance is the distance it was seen at, every other
\* taxi seen free was farther or as far and later in the fleet; and a step of
\* the scan changes no taxi.
NearestOfSeen ==
    /\ [](\A d \in Dispatchers :
            LET w == workers[d] IN
            w.pc \in {"scan", "notify"} =>
                /\ Len(w.seen) = w.i - 1
                /\ (w.nearest = None) <=> SawNoneFree(d)
                /\ w.nearest /= None =>
                      /\ w.nearest \in 1 .. Len(w.seen)
                      /\ w.seen[w.nearest].free
                      /\ w.min_distance = w.seen[w.nearest].distance
                      /\ \A k \in 1 .. Len(w.seen) :
                            w.seen[k].free =>
                                \/ w.seen[k].distance > w.min_distance
                                \/ w.seen[k].distance = w.min_distance
                                   /\ k >= w.nearest)
    /\ [][\A d \in Dispatchers : find_nearest_taxi_step(d) => taxis' = taxis]_vars

\* a scan of two free taxis has returned the second: it was seen nearer
SecondIsNearer ==
    \E d \in Dispatchers :
        LET w == workers[d] IN
        /\ Len(taxis) = 2
        /\ w.pc = "scan"
        /\ w.i > Len(taxis)
        /\ w.seen[1].free /\ w.seen[2].free
        /\ w.seen[2].distance < w.seen[1].distance
        /\ w.nearest = 2

(***************************************************************************)
(* C18                                                                     *)
(***************************************************************************)
\* C18: the step of a worker that takes a cancelled order from the queue only
\* removes it: the order is not put back, no taxi and no order changes, no
\* ride thread is started, the worker's counter stays, and the worker holds
\* nothing afterwards.
DropsCancelled ==
    [][\A d \in Dispatchers :
          (worker_get(d) /\ orders[Head(order_queue)].is_cancelled) =>
              /\ order_queue' = Tail(order_queue)
              /\ taxis' = taxis
              /\ orders' = orders
              /\ rides' = rides
              /\ dispatchers'[d].processed_orders = dispatchers[d].processed_orders
              /\ workers'[d].order = None
              /\ workers'[d].pc \in {"get", "exit"}]_vars

\* taxis are there and free, yet an order was cancelled before any worker
\* took it and has been dropped: nothing was assigned, counted or started
DroppedUntouched ==
    /\ Len(taxis) >= 1
    /\ \A v \in TaxiIds : taxis[v].status = "free"
    /\ rides = <<>>
    /\ \A d \in Dispatchers : dispatchers[d].processed_orders = 0
    /\ \E o \in OrderIds :
           /\ orders[o].is_cancelled
           /\ Dropped(o)
           /\ orders[o].taxi = None
           /\ ~orders[o].assigned_event

(***************************************************************************)
(* C19                                                                     *)
(***************************************************************************)
\* C19: an order whose assigned_event is set has a taxi; the event of an order
\* changes only by the set() of the worker that holds the order after its
\* commit, with the order naming the taxi that worker chose; and set() is
\* never called on an event that is set already.
NotifiedOnce ==
    /\ [](\A o \in OrderIds : orders[o].assigned_event => orders[o].taxi /= None)
    /\ [][\A o \in OrderIds :
            orders'[o].assigned_event /= orders[o].assigned_event =>
                \E d \in Dispatchers :
                    /\ process_notify(d)
                    /\ workers[d].order = o
                    /\ workers[d].nearest /= None
                    /\ orders[o].taxi = workers[d].nearest]_vars
    /\ [][\A d \in Dispatchers :
            process_notify(d) => ~orders[workers[d].order].assigned_event]_vars

\* the client was told: the event is set, the order has its taxi, the worker
\* has moved on and the patience thread has ended without cancelling
ClientNotified ==
    \E o \in OrderIds :
        /\ orders[o].assigned_event
        /\ orders[o].taxi /= None
        /\ ~orders[o].is_cancelled
        /\ ~Held(o)
        /\ monitors[o].pc = "done"
        /\ clients[o].status = "waiting"

(***************************************************************************)
(* C20                                                                     *)
(***************************************************************************)
\* the step is the body of one of the `with taxi.lock:` blocks on taxi v that
\* write: the commit of _process_order, set_location, the ON_RIDE block and
\* the two releasing blocks of simulate_ride, the block of Order.cancel
LockedBlock(v) ==
    \/ \E d \in Dispatchers : workers[d].nearest = v /\ process_assign(d)
    \/ \E r \in RideIds :
          /\ rides[r].taxi = v
          /\ move_step(r) \/ ride_pickup(r) \/ ride_release(r)
    \/ \E c \in DOMAIN monitors :
          orders[clients[c].current_order].taxi = v /\ cancel_release(c)

\* C20: every step that changes a taxi's status, location or order is the body
\* of a `with taxi.lock:` block on that taxi.
WritesUnderLock ==
    [][\A v \in TaxiIds : taxis'[v] /= taxis[v] => LockedBlock(v)]_vars

\* C21: deadlock freedom.  In every reachable state of the engine with its
\* locks taken step by step, no task holds more than one lock, and no set of
\* tasks is such that each of them waits for a lock held inside the set.
DeadlockFree ==
    /\ \A t \in Tasks : Cardinality(Holding(t)) <= 1
    /\ \A S \in SUBSET Tasks :
          S /= {} => \E t \in S : ~(Waiting(t) /\ Holders(t) \subseteq S)

\* the patience thread waits for a lock the ride holds while a dispatch worker
\* is inside a block of its own
LockContended ==
    \E c \in DOMAIN monitors, r \in RideIds, d \in Dispatchers :
        /\ Waiting(<<"monitor", c>>)
        /\ <<"ride", r>> \in Holders(<<"monitor", c>>)
        /\ Holding(<<"worker", d>>) /= {}

\* C22: fault containment.  The step in which a ride raises, and the step of
\* the except branch after it, change no dispatch worker and leave the queue
\* as it is; the except branch ends the ride with its taxi free and without
\* an order; and under fair scheduling no ride stays in its except branch.
FaultContained ==
    /\ [][\A r \in RideIds :
            /\ rides[r].pc \notin {"done", "except"} /\ rides'[r].pc = "except"
               => workers' = workers /\ order_queue' = order_queue
            /\ rides[r].pc = "except" /\ rides'[r] /= rides[r]
               => /\ workers' = workers /\ order_queue' = order_queue
                  /\ rides'[r].pc = "done"
                  /\ taxis'[rides[r].taxi].status = "free"
                  /\ taxis'[rides[r].taxi].order = None]_vars
    /\ <>[](\A r \in RideIds : rides[r].pc /= "except")

\* the only ride raised on its second leg, with the client aboard, and has
\* ended: the taxi is free short of the destination
RaisedOnTheWay ==
    /\ Len(orders) = 1
    /\ Len(rides) = 1
    /\ rides[1].pc = "done"
    /\ ~orders[1].is_cancelled
    /\ clients[1].status = "on_ride"
    /\ taxis[rides[1].taxi].status = "free"
    /\ taxis[rides[1].taxi].order = None
    /\ taxis[rides[1].taxi].location /= orders[1].to_location

\* C23: one ride executor per vehicle.  In every reachable state at most one
\* simulate_ride thread that has not ended drives a given taxi.
OneExecutorPerTaxi ==
    \A v \in TaxiIds :
        Cardinality({r \in RideIds : rides[r].taxi = v /\ rides[r].pc /= "done"}) <= 1

\* the places an order is in: its occurrences in the queue and the workers
\* that hold it
Copies(o) ==
    Cardinality({k \in 1 .. Len(order_queue) : order_queue[k] = o})
    + Cardinality({d \in Dispatchers : workers[d].order = o})

\* C24: order conservation.  In every reachable state no order is in more
\* than one place (twice in the queue, with two workers, or in the queue and
\* with a worker), and an order that is neither cancelled nor assigned is in
\* exactly one.
OrderConserved ==
    \A o \in OrderIds :
        /\ Copies(o) <= 1
        /\ (~orders[o].is_cancelled /\ orders[o].taxi = None) => Copies(o) = 1

\* of two orders neither cancelled nor assigned, one waits in the queue while
\* a worker scans the fleet for the other
OneQueuedOneHeld ==
    \E o, q \in OrderIds :
        /\ o /= q
        /\ ~orders[o].is_cancelled /\ orders[o].taxi = None
        /\ ~orders[q].is_cancelled /\ orders[q].taxi = None
        /\ InQueue(o)
        /\ \E d \in Dispatchers : workers[d].order = q /\ workers[d].pc = "scan"

====
